---- MODULE Spec2Model ----
(***************************************************************************)
(* pullover: pull-based asynchronous streams and the counting semaphore    *)
(* that bounds the concurrency of mapAsync.                                *)
(*                                                                         *)
(* The repository holds two implementations of makeSemaphore:              *)
(*   "emitter" - src/src/semaphore.ts, waiters are once('released')        *)
(*               listeners of an EventEmitter;                             *)
(*   "queue"   - src/unnamed/part_001, waiters are closures kept in the    *)
(*               array waitingToAcquire.                                   *)
(* pullover.ts (src/unnamed/part_000) imports makeSemaphore from           *)
(* "./semaphore"; the variable impl says which of the two a behaviour uses.*)
(***************************************************************************)
EXTENDS Integers, Sequences, FiniteSets, TLC

\* ---- bounds of the model ------------------------------------------------
MaxPermits == 2      \* largest max / concurrency
MaxCalls == 4        \* acquire calls made by the semaphore's clients
MaxReleases == 2     \* times one release function is called
MaxLen == 3          \* longest upstream
MaxTake == 3         \* largest n of take(n)
MaxBelowZero == 1    \* the least concurrency tried is 0 - MaxBelowZero

Impls == {"emitter", "queue"}
Callers == 1..MaxCalls
Travs == {1, 2}

VARIABLES
    impl,       \* which makeSemaphore is linked
    max,        \* makeSemaphore's argument
    sem,        \* the semaphore's closure state
    called,     \* acquire calls made so far by the clients (call ids 1..called)
    relCount,   \* relCount[c]: times the release function of call c was called
    waited,     \* the acquire calls that were not granted at once
    travs,      \* the traversals started from the one stream mapAsync returned
    upstream,   \* the values x_1..x_n the upstream traversal gen yields
    throwsAt,   \* the gen.next() call that throws, 0 when none does
    gen,        \* the upstream traversal: values yielded, next() calls, ended
    genQ,       \* traversals whose gen.next() call has not resolved yet
    promises,   \* the array promises; a promise is the index of its upstream value
    task,       \* task[i]: state of the promise f(x_i) and the lock of its release
    pc,         \* pc[tr]: where the next() of traversal tr stands
    rel,        \* rel[tr]: the lock of the local release of traversal tr
    last,       \* last[tr]: the promise traversal tr awaits
    err,        \* err[tr]: what traversal tr failed with
    settled,    \* the promises of f in the order they settled
    out,        \* out[tr]: the values traversal tr emitted
    cs          \* one traversal of a combinator stream (take, recover, ...)

clientVars == <<called, relCount, waited>>
mapVars == <<travs, upstream, throwsAt, gen, genQ, promises, task, pc, rel, last, err, settled, out>>
vars == <<impl, max, sem, clientVars, mapVars, cs>>

\* the value of cs while no combinator stream is traversed
NoStream == [kind |-> "none"]

\* ---- the semaphore -------------------------------------------------------
\* sem.locks    the Set<Symbol> locks; a Symbol is its creation number
\* sem.waiting  emitter: the 'released' listeners in registration order
\*              queue:   the array waitingToAcquire
\* sem.lockOf   lockOf[c] is the lock of the release function the promise of
\*              acquire call c resolved with, 0 while it is pending
\* sem.nextLock the number of the next Symbol()
makeSemaphore ==
    [locks |-> {}, waiting |-> <<>>, lockOf |-> [c \in Callers |-> 0], nextLock |-> 1]

available(s) == max - Cardinality(s.locks)

\* makeRelease without locks.add(lock)
makeReleaseNoAdd(s, c) ==
    [s EXCEPT !.lockOf[c] = s.nextLock,
              !.nextLock = @ + 1]

\* const lock = Symbol(); locks.add(lock); return release  (handed to call c)
makeRelease(s, c) ==
    [s EXCEPT !.locks = @ \cup {s.nextLock},
              !.lockOf[c] = s.nextLock,
              !.nextLock = @ + 1]

\* eventEmitter.emit('released'): every once-listener registered so far runs,
\* in registration order, and each runs resolve(makeRelease())
RECURSIVE emitTo(_, _)
emitTo(s, listeners) ==
    IF listeners = <<>> THEN s
    ELSE emitTo(makeRelease(s, Head(listeners)), Tail(listeners))

emit(s) == emitTo([s EXCEPT !.waiting = <<>>], s.waiting)

\* const resolve = waitingToAcquire.pop(); if (resolve) resolve()
popResolve(s) ==
    IF s.waiting = <<>> THEN s
    ELSE makeRelease([s EXCEPT !.waiting = SubSeq(@, 1, Len(@) - 1)],
                     s.waiting[Len(s.waiting)])

\* release without locks.delete(lock)
releaseEmitterKeepsLock(s, lock) ==
    IF lock \in s.locks THEN emit(s) ELSE s

\* the release function that closes over lock, emitter implementation
releaseEmitter(s, lock) ==
    IF lock \in s.locks
    THEN emit([s EXCEPT !.locks = @ \ {lock}])
    ELSE s

\* release that deletes the lock and wakes nobody
releaseQueueNoWake(s, lock) ==
    IF lock \in s.locks THEN [s EXCEPT !.locks = @ \ {lock}] ELSE s

\* release without the locks.has(lock) test
releaseQueueUnguarded(s, lock) ==
    popResolve([s EXCEPT !.locks = @ \ {lock}])

\* the release function that closes over lock, queue implementation
releaseQueue(s, lock) ==
    IF lock \in s.locks
    THEN popResolve([s EXCEPT !.locks = @ \ {lock}])
    ELSE s

\* acquire with locks.size < max - 1 in place of locks.size < max
acquireEmitterEarlyWait(s, c) ==
    IF Cardinality(s.locks) < max - 1
    THEN makeRelease(s, c)
    ELSE [s EXCEPT !.waiting = Append(@, c)]

\* acquire, emitter implementation; c names the promise it returns
acquireEmitter(s, c) ==
    IF Cardinality(s.locks) < max
    THEN makeRelease(s, c)
    ELSE [s EXCEPT !.waiting = Append(@, c)]

\* acquire with waitingToAcquire.push in place of unshift
acquireQueuePush(s, c) ==
    IF Cardinality(s.locks) < max
    THEN makeRelease(s, c)
    ELSE [s EXCEPT !.waiting = Append(@, c)]

\* acquire with locks.size <= max in place of locks.size < max
acquireQueueOffByOne(s, c) ==
    IF Cardinality(s.locks) <= max
    THEN makeRelease(s, c)
    ELSE [s EXCEPT !.waiting = <<c>> \o @]

\* acquire, queue implementation; c names the promise it returns
acquireQueue(s, c) ==
    IF Cardinality(s.locks) < max
    THEN makeRelease(s, c)
    ELSE [s EXCEPT !.waiting = <<c>> \o @]

acquire(s, c) ==
    LET fresh == [s EXCEPT !.lockOf[c] = 0]
    IN  IF impl = "emitter" THEN acquireEmitter(fresh, c) ELSE acquireQueue(fresh, c)

\* a release() that does nothing
releaseNothing(s, lock) == s

release(s, lock) ==
    IF impl = "emitter" THEN releaseEmitter(s, lock) ELSE releaseQueue(s, lock)

\* ---- clients of a bare semaphore ------------------------------------------
InitSem ==
    /\ impl \in Impls
    /\ max \in 1..MaxPermits
    /\ sem = makeSemaphore
    /\ called = 0
    /\ relCount = [c \in Callers |-> 0]
    /\ waited = {}
    /\ travs = {}
    /\ upstream = <<>>
    /\ throwsAt = 0
    /\ gen = [pos |-> 0, calls |-> 0, ended |-> FALSE]
    /\ genQ = <<>>
    /\ promises = <<>>
    /\ task = [i \in 1..MaxLen |-> [state |-> "none", lock |-> 0]]
    /\ pc = [tr \in Travs |-> "init"]
    /\ rel = [tr \in Travs |-> 0]
    /\ last = [tr \in Travs |-> 0]
    /\ err = [tr \in Travs |-> "none"]
    /\ settled = <<>>
    /\ out = [tr \in Travs |-> <<>>]
    /\ cs = NoStream

\* a client calls semaphore.acquire(); the call gets the next call id
Acquire ==
    /\ called < MaxCalls
    /\ called' = called + 1
    /\ sem' = acquire(sem, called + 1)
    /\ waited' = IF sem'.lockOf[called + 1] = 0 THEN waited \cup {called + 1} ELSE waited
    /\ UNCHANGED <<cs, impl, max, relCount, mapVars>>

\* a client calls the release function its acquire call c resolved with
Release(c) ==
    /\ sem.lockOf[c] # 0
    /\ relCount[c] < MaxReleases
    /\ sem' = release(sem, sem.lockOf[c])
    /\ relCount' = [relCount EXCEPT ![c] = @ + 1]
    /\ UNCHANGED <<cs, impl, max, called, waited, mapVars>>

ReleaseAny == \E c \in Callers : Release(c)

NextSem == Acquire \/ ReleaseAny

\* the first call of the release function of call c
ReleaseHeld(c) == relCount[c] = 0 /\ Release(c)

\* every granted permit is eventually released
SpecSemFair ==
    InitSem /\ [][NextSem]_vars /\ \A c \in Callers : WF_vars(ReleaseHeld(c))

SpecSem == InitSem /\ [][NextSem]_vars

\* ---- mapAsync ------------------------------------------------------------
\* the mapping function of the repository's test: n => a promise of n * 10
f(x) == x * 10

\* promises.push(promise) in place of unshift
unshiftAsPush(q, p) == Append(q, p)

\* promises.unshift(promise)
unshift(q, p) == <<p>> \o q

\* promises.pop() leaves q without its last element
popped(q) == SubSeq(q, 1, Len(q) - 1)

\* promises[0] in place of the popped element
lastOfFront(q) == q[1]

\* what promises.pop() returns
lastOf(q) == q[Len(q)]

\* const gen = fa(); const semaphore = makeSemaphore(concurrency);
\* const promises = []  -- made once, when mapAsync(f, k) is applied to fa
InitMapWith(K) ==
    /\ impl \in Impls
    /\ max \in K
    /\ sem = makeSemaphore
    /\ called = 0
    /\ relCount = [c \in Callers |-> 0]
    /\ waited = {}
    /\ \E n \in 0..MaxLen :
        /\ upstream = [i \in 1..n |-> i]
        /\ throwsAt \in 0..(n + 1)
    /\ gen = [pos |-> 0, calls |-> 0, ended |-> FALSE]
    /\ genQ = <<>>
    /\ promises = <<>>
    /\ task = [i \in 1..MaxLen |-> [state |-> "none", lock |-> 0]]
    /\ pc = [tr \in Travs |-> "init"]
    /\ rel = [tr \in Travs |-> 0]
    /\ last = [tr \in Travs |-> 0]
    /\ err = [tr \in Travs |-> "none"]
    /\ settled = <<>>
    /\ out = [tr \in Travs |-> <<>>]
    /\ cs = NoStream

\* concurrency is a positive integer (spec section 6)
InitMapAsync == InitMapWith(1..MaxPermits)

\* any concurrency, 0 and negative numbers too: the code tests none
InitAnyK == InitMapWith((0 - MaxBelowZero)..MaxPermits) /\ travs = {1}

\* one consumer drives the stream once
InitMap == InitMapAsync /\ travs = {1}

\* the stream is invoked twice
InitTwo == InitMapAsync /\ travs = {1, 2}

\* const last = promises.pop(); return last === undefined ? done : await last
\* (s, q: the semaphore and the array as the statements before left them)
popLast(tr, s, q) ==
    /\ sem' = s
    /\ IF q = <<>>
       THEN /\ promises' = q
            /\ pc' = [pc EXCEPT ![tr] = "done"]
            /\ last' = last
       ELSE /\ promises' = popped(q)
            /\ pc' = [pc EXCEPT ![tr] = "awaitLast"]
            /\ last' = [last EXCEPT ![tr] = lastOf(q)]

\* while (semaphore.available()) { const release = await semaphore.acquire(); ...
\* a number is truthy when it is not 0
whileAvailable(tr, s, q) ==
    IF available(s) # 0
    THEN /\ sem' = acquire(s, tr)
         /\ promises' = q
         /\ pc' = [pc EXCEPT ![tr] = "awaitAcquire"]
         /\ last' = last
    ELSE popLast(tr, s, q)

\* the consumer pulls: the for await of fromIterable calls next()
Pull(tr) ==
    /\ tr \in travs
    /\ pc[tr] \in {"init", "idle"}
    /\ whileAvailable(tr, sem, promises)
    /\ UNCHANGED <<cs, impl, max, clientVars, travs, upstream, throwsAt, gen, genQ, task, rel, err, out, settled>>

\* await semaphore.acquire() resumes with release; then gen.next() is called
ResumeAcquire(tr) ==
    /\ pc[tr] = "awaitAcquire"
    /\ sem.lockOf[tr] # 0
    /\ rel' = [rel EXCEPT ![tr] = sem.lockOf[tr]]
    /\ gen' = [gen EXCEPT !.calls = @ + 1]
    /\ genQ' = Append(genQ, tr)
    /\ pc' = [pc EXCEPT ![tr] = "awaitGen"]
    /\ UNCHANGED <<cs, impl, max, sem, clientVars, travs, upstream, throwsAt, promises, task, last, err, out, settled>>

\* the gen.next() calls of an async generator are served in call order;
\* this one is call number gen.calls - Len(genQ) + 1
servedCall == gen.calls - Len(genQ) + 1

\* await gen.next() throws: catch (e) { release(); throw e; }
GenThrows(tr) ==
    /\ pc[tr] = "awaitGen"
    /\ genQ # <<>> /\ Head(genQ) = tr
    /\ ~gen.ended /\ servedCall = throwsAt
    /\ genQ' = Tail(genQ)
    /\ gen' = [gen EXCEPT !.ended = TRUE]
    /\ sem' = release(sem, rel[tr])
    /\ pc' = [pc EXCEPT ![tr] = "failed"]
    /\ err' = [err EXCEPT ![tr] = "upstream"]
    /\ UNCHANGED <<cs, impl, max, clientVars, travs, upstream, throwsAt, promises, task, rel, last, out, settled>>

\* await gen.next() resolves done: release(); break; then the pop
GenDone(tr) ==
    /\ pc[tr] = "awaitGen"
    /\ genQ # <<>> /\ Head(genQ) = tr
    /\ gen.ended \/ (servedCall # throwsAt /\ gen.pos = Len(upstream))
    /\ genQ' = Tail(genQ)
    /\ gen' = [gen EXCEPT !.ended = TRUE]
    /\ popLast(tr, release(sem, rel[tr]), promises)
    /\ UNCHANGED <<cs, impl, max, clientVars, travs, upstream, throwsAt, task, rel, err, out, settled>>

\* await gen.next() resolves with a value: const promise = f(result.value);
\* promises.unshift(promise); promise.then(() => release()); and the loop test
GenValue(tr) ==
    /\ pc[tr] = "awaitGen"
    /\ genQ # <<>> /\ Head(genQ) = tr
    /\ ~gen.ended /\ servedCall # throwsAt /\ gen.pos < Len(upstream)
    /\ genQ' = Tail(genQ)
    /\ gen' = [gen EXCEPT !.pos = @ + 1]
    /\ task' = [task EXCEPT ![gen.pos + 1] = [state |-> "pending", lock |-> rel[tr]]]
    /\ whileAvailable(tr, sem, unshift(promises, gen.pos + 1))
    /\ UNCHANGED <<cs, impl, max, clientVars, travs, upstream, throwsAt, rel, err, out, settled>>

\* await gen.next() resolves with a value and f(result.value) throws before
\* it returns a promise: catch (e) { release(); throw e; }
FThrows(tr) ==
    /\ pc[tr] = "awaitGen"
    /\ genQ # <<>> /\ Head(genQ) = tr
    /\ ~gen.ended /\ servedCall # throwsAt /\ gen.pos < Len(upstream)
    /\ genQ' = Tail(genQ)
    /\ gen' = [gen EXCEPT !.pos = @ + 1]
    /\ sem' = release(sem, rel[tr])
    /\ pc' = [pc EXCEPT ![tr] = "failed"]
    /\ err' = [err EXCEPT ![tr] = "thrown"]
    /\ UNCHANGED <<cs, impl, max, clientVars, travs, upstream, throwsAt, promises, task, rel, last, out, settled>>

\* the promise f(x_i) fulfils: the then callback runs release()
Fulfil(i) ==
    /\ task[i].state = "pending"
    /\ task' = [task EXCEPT ![i].state = "fulfilled"]
    /\ settled' = Append(settled, i)
    /\ sem' = release(sem, task[i].lock)
    /\ UNCHANGED <<cs, impl, max, clientVars, travs, upstream, throwsAt, gen, genQ, promises, pc, rel, last, err, out>>

\* the promise f(x_i) rejects: then(() => release()) has no rejection handler
Reject(i) ==
    /\ task[i].state = "pending"
    /\ task' = [task EXCEPT ![i].state = "rejected"]
    /\ settled' = Append(settled, i)
    /\ UNCHANGED <<cs, impl, max, sem, clientVars, travs, upstream, throwsAt, gen, genQ, promises, pc, rel, last, err, out>>

\* await last resumes with the value: next() resolves and the value is emitted
Emit(tr) ==
    /\ pc[tr] = "awaitLast"
    /\ task[last[tr]].state = "fulfilled"
    /\ out' = [out EXCEPT ![tr] = Append(@, f(upstream[last[tr]]))]
    /\ pc' = [pc EXCEPT ![tr] = "idle"]
    /\ UNCHANGED <<cs, impl, max, sem, clientVars, travs, upstream, throwsAt, gen, genQ, promises, task, rel, last, err, settled>>

\* await last throws: next() rejects and the traversal fails
Fail(tr) ==
    /\ pc[tr] = "awaitLast"
    /\ task[last[tr]].state = "rejected"
    /\ pc' = [pc EXCEPT ![tr] = "failed"]
    /\ err' = [err EXCEPT ![tr] = "f"]
    /\ UNCHANGED <<cs, impl, max, sem, clientVars, travs, upstream, throwsAt, gen, genQ, promises, task, rel, last, out, settled>>

PullAny == \E tr \in Travs : Pull(tr)
ResumeAcquireAny == \E tr \in Travs : ResumeAcquire(tr)
GenThrowsAny == \E tr \in Travs : GenThrows(tr)
GenDoneAny == \E tr \in Travs : GenDone(tr)
GenValueAny == \E tr \in Travs : GenValue(tr)
FThrowsAny == \E tr \in Travs : FThrows(tr)
FulfilAny == \E i \in 1..MaxLen : Fulfil(i)
RejectAny == \E i \in 1..MaxLen : Reject(i)
EmitAny == \E tr \in Travs : Emit(tr)
FailAny == \E tr \in Travs : Fail(tr)

NextMap ==
    \/ PullAny \/ ResumeAcquireAny \/ GenThrowsAny \/ GenDoneAny \/ GenValueAny \/ FThrowsAny
    \/ FulfilAny \/ RejectAny \/ EmitAny \/ FailAny

SpecMap == InitMap /\ [][NextMap]_vars

SpecTwo == InitTwo /\ [][NextMap]_vars

\* the consumer keeps pulling, the event loop runs every continuation that is
\* ready, and every promise of f settles
SpecMapLive == InitMap /\ [][NextMap]_vars /\ WF_vars(NextMap)

SpecAnyK == InitAnyK /\ [][NextMap]_vars

\* ---- streams and the sequential combinators -------------------------------
\* A finite stream as fromIterable / throwError make it: a traversal yields
\* vals in order; when failAt is not 0, pull number failAt fails instead
Stream(len, base, failAt) == [vals |-> [k \in 1..len |-> base + k], failAt |-> failAt]

\* a traversal (the AsyncGenerator) before its first pull
Fresh == [pulls |-> 0, ended |-> FALSE]

Done == [tag |-> "done", value |-> 0]

\* what the next gen.next() of traversal cur of stream s settles with
srcNext(s, cur) ==
    IF cur.ended THEN Done
    ELSE IF cur.pulls + 1 = s.failAt THEN [tag |-> "throw", value |-> 0]
    ELSE IF cur.pulls + 1 <= Len(s.vals) THEN [tag |-> "value", value |-> s.vals[cur.pulls + 1]]
    ELSE Done

\* the traversal after that gen.next()
advance(s, cur) ==
    [pulls |-> cur.pulls + 1, ended |-> srcNext(s, cur).tag # "value"]

\* the value the k-th call of a Lazy supplier produces
supplied(k) == 100 + k

\* a combinator applied to stream a (and b, n), before the consumer's first pull
StreamInit(kind, n, a, b) ==
    [kind |-> kind, n |-> n, a |-> a, b |-> b, ca |-> Fresh, cb |-> Fresh,
     pc |-> "run", phase |-> "start", out |-> <<>>, i |-> n,
     ra |-> Done, rb |-> Done, sep |-> 0, sepCalls |-> 0, handled |-> 0,
     err |-> "none"]

failed(c, e) == [c EXCEPT !.pc = "failed", !.err = e]
ended(c) == [c EXCEPT !.pc = "done"]
yielded(c, v) == [c EXCEPT !.out = Append(@, v)]

\* take(n): let i = n; for await (const item of fa())
\*            { if (i-- <= 0) break; yield item; }
\* one consumer pull: the loop pulls upstream first and tests i afterwards
takeNext(c) ==
    LET r == srcNext(c.a, c.ca)
        c1 == [c EXCEPT !.ca = advance(c.a, c.ca)]
    IN  IF r.tag = "throw" THEN failed(c1, "a")
        ELSE IF r.tag = "done" THEN ended(c1)
        ELSE IF c.i <= 0
             THEN ended([c1 EXCEPT !.i = @ - 1, !.ca.ended = TRUE])
             ELSE yielded([c1 EXCEPT !.i = @ - 1], r.value)

\* yield* of the traversal of stream b: one pull of it
fromSecond(c) ==
    LET r == srcNext(c.b, c.cb)
        c1 == [c EXCEPT !.cb = advance(c.b, c.cb)]
    IN  IF r.tag = "throw" THEN failed(c1, "b")
        ELSE IF r.tag = "done" THEN ended(c1)
        ELSE yielded(c1, r.value)

\* recover whose try block also wraps the recovery stream and drops its error
recoverNextSwallows(c) ==
    LET viaHandler(d) == IF fromSecond(d).pc = "failed"
                         THEN ended([fromSecond(d) EXCEPT !.err = "none"])
                         ELSE fromSecond(d)
    IN  IF c.phase = "handler" THEN viaHandler(c)
        ELSE LET r == srcNext(c.a, c.ca)
                 c1 == [c EXCEPT !.ca = advance(c.a, c.ca)]
             IN  IF r.tag = "value" THEN yielded(c1, r.value)
                 ELSE IF r.tag = "done" THEN ended(c1)
                 ELSE viaHandler([c1 EXCEPT !.phase = "handler", !.handled = @ + 1])

\* recover(f): try { yield* fa(); } catch (e) { yield* f(e)(); }
\* b is the stream f(e); phase "handler" is the catch block
recoverNext(c) ==
    IF c.phase = "handler" THEN fromSecond(c)
    ELSE LET r == srcNext(c.a, c.ca)
             c1 == [c EXCEPT !.ca = advance(c.a, c.ca)]
         IN  IF r.tag = "value" THEN yielded(c1, r.value)
             ELSE IF r.tag = "done" THEN ended(c1)
             ELSE fromSecond([c1 EXCEPT !.phase = "handler", !.handled = @ + 1])

\* concat that goes on to ga when fa fails
concatNextIgnoresFailure(c) ==
    IF c.phase = "second" THEN fromSecond(c)
    ELSE LET r == srcNext(c.a, c.ca)
             c1 == [c EXCEPT !.ca = advance(c.a, c.ca)]
         IN  IF r.tag = "value" THEN yielded(c1, r.value)
             ELSE fromSecond([c1 EXCEPT !.phase = "second"])

\* concat(ga)(fa): yield* fa(); yield* ga();   b is the stream ga
concatNext(c) ==
    IF c.phase = "second" THEN fromSecond(c)
    ELSE LET r == srcNext(c.a, c.ca)
             c1 == [c EXCEPT !.ca = advance(c.a, c.ca)]
         IN  IF r.tag = "value" THEN yielded(c1, r.value)
             ELSE IF r.tag = "throw" THEN failed(c1, "a")
             ELSE fromSecond([c1 EXCEPT !.phase = "second"])

\* intersperse: while (!a.done) { yield a.value; ...   (a is c.ra)
intersperseLoop(c) ==
    IF c.ra.tag = "done" THEN ended(c)
    ELSE yielded([c EXCEPT !.phase = "afterValue"], c.ra.value)

\* intersperse(item)(fa):
\*   const gen = fa(); const i = item();
\*   let a = await gen.next(); let b = await gen.next();
\*   while (!a.done) { yield a.value; a = b;
\*                     if (!b.done) { yield i; b = await gen.next(); } }
intersperseNext(c) ==
    IF c.phase = "start"
    THEN LET c0 == [c EXCEPT !.sepCalls = @ + 1, !.sep = supplied(c.sepCalls + 1)]
             r1 == srcNext(c.a, c.ca)
             c1 == [c0 EXCEPT !.ca = advance(c.a, c.ca), !.ra = r1]
             r2 == srcNext(c.a, c1.ca)
             c2 == [c1 EXCEPT !.ca = advance(c.a, c1.ca), !.rb = r2]
         IN  IF r1.tag = "throw" THEN failed(c1, "a")
             ELSE IF r2.tag = "throw" THEN failed(c2, "a")
             ELSE intersperseLoop(c2)
    ELSE IF c.phase = "afterValue"
    THEN LET c1 == [c EXCEPT !.ra = c.rb]
         IN  IF c.rb.tag # "done"
             THEN yielded([c1 EXCEPT !.phase = "afterSep"], c.sep)
             ELSE intersperseLoop(c1)
    ELSE LET r == srcNext(c.a, c.ca)
             c1 == [c EXCEPT !.ca = advance(c.a, c.ca), !.rb = r]
         IN  IF r.tag = "throw" THEN failed(c1, "a") ELSE intersperseLoop(c1)

\* zip with || in place of && in the loop test
zipNextEither(c) ==
    LET r1 == srcNext(c.a, c.ca)
        c1 == [c EXCEPT !.ca = advance(c.a, c.ca), !.ra = r1]
        r2 == srcNext(c.b, c.cb)
        c2 == [c1 EXCEPT !.cb = advance(c.b, c.cb), !.rb = r2]
    IN  IF r1.tag = "throw" THEN failed(c1, "a")
        ELSE IF r2.tag = "throw" THEN failed(c2, "b")
        ELSE IF r1.tag # "done" \/ r2.tag # "done"
             THEN yielded(c2, <<r1.value, r2.value>>)
             ELSE ended(c2)

\* zip(fb)(fa): resultA = await genA.next(); resultB = await genB.next();
\*   while (!resultA.done && !resultB.done) { yield [A, B]; the two pulls again }
zipNext(c) ==
    LET r1 == srcNext(c.a, c.ca)
        c1 == [c EXCEPT !.ca = advance(c.a, c.ca), !.ra = r1]
        r2 == srcNext(c.b, c.cb)
        c2 == [c1 EXCEPT !.cb = advance(c.b, c.cb), !.rb = r2]
    IN  IF r1.tag = "throw" THEN failed(c1, "a")
        ELSE IF r2.tag = "throw" THEN failed(c2, "b")
        ELSE IF r1.tag # "done" /\ r2.tag # "done"
             THEN yielded(c2, <<r1.value, r2.value>>)
             ELSE ended(c2)

\* the streams the consumer traverses: fa of up to MaxLen values 1, 2, ...,
\* fb (second stream, recovery stream, zip partner) of values 11, 12, ...
InitStreams ==
    /\ impl = "queue"
    /\ max = 1
    /\ sem = makeSemaphore
    /\ called = 0
    /\ relCount = [c \in Callers |-> 0]
    /\ waited = {}
    /\ travs = {}
    /\ upstream = <<>>
    /\ throwsAt = 0
    /\ gen = [pos |-> 0, calls |-> 0, ended |-> FALSE]
    /\ genQ = <<>>
    /\ promises = <<>>
    /\ task = [i \in 1..MaxLen |-> [state |-> "none", lock |-> 0]]
    /\ pc = [tr \in Travs |-> "init"]
    /\ rel = [tr \in Travs |-> 0]
    /\ last = [tr \in Travs |-> 0]
    /\ err = [tr \in Travs |-> "none"]
    /\ settled = <<>>
    /\ out = [tr \in Travs |-> <<>>]
    /\ \E la \in 0..MaxLen, lb \in 0..MaxLen :
       \E fa \in 0..(la + 1), fb \in 0..(lb + 1) :
          \/ \E n \in 0..MaxTake :
                lb = 0 /\ fb = 0
                /\ cs = StreamInit("take", n, Stream(la, 0, fa), Stream(0, 10, 0))
          \/ lb = 0 /\ fb = 0
             /\ cs = StreamInit("intersperse", 0, Stream(la, 0, fa), Stream(0, 10, 0))
          \/ \E kind \in {"recover", "concat", "zip"} :
                cs = StreamInit(kind, 0, Stream(la, 0, fa), Stream(lb, 10, fb))

streamFrame == UNCHANGED <<impl, max, sem, clientVars, mapVars>>

\* the consumer (runToArray's for await) pulls the stream once more
TakePull == cs.kind = "take" /\ cs.pc = "run" /\ cs' = takeNext(cs) /\ streamFrame
RecoverPull == cs.kind = "recover" /\ cs.pc = "run" /\ cs' = recoverNext(cs) /\ streamFrame
ConcatPull == cs.kind = "concat" /\ cs.pc = "run" /\ cs' = concatNext(cs) /\ streamFrame
InterspersePull ==
    cs.kind = "intersperse" /\ cs.pc = "run" /\ cs' = intersperseNext(cs) /\ streamFrame
ZipPull == cs.kind = "zip" /\ cs.pc = "run" /\ cs' = zipNext(cs) /\ streamFrame

NextStreams == TakePull \/ RecoverPull \/ ConcatPull \/ InterspersePull \/ ZipPull

SpecStreams == InitStreams /\ [][NextStreams]_vars

\* ---- properties of the semaphore (SpecSem) ---------------------------------
\* the acquire calls that were granted a permit and have not released it
holders == {c \in Callers : sem.lockOf[c] # 0 /\ relCount[c] = 0}

\* C2: the number of held permits never exceeds max, that is available() is
\* never negative
C2_AvailableNeverNegative ==
    /\ Cardinality(sem.locks) <= max
    /\ available(sem) >= 0

\* C3: acquire calls that had to wait are granted in the order they were made
\* (locks are numbered in the order they are granted), and no later call holds
\* a permit while an earlier call is still waiting
C3_WaitersGrantedFifo ==
    /\ \A a, b \in waited :
        (a < b /\ sem.lockOf[b] # 0) =>
            (sem.lockOf[a] # 0 /\ sem.lockOf[a] < sem.lockOf[b])
    /\ \A a \in waited : \A b \in 1..called :
        (a < b /\ sem.lockOf[a] = 0) => sem.lockOf[b] = 0

C3_Witness ==
    /\ impl = "queue"
    /\ \E a, b \in waited : a < b /\ sem.lockOf[a] # 0 /\ sem.lockOf[b] # 0

\* C7: an acquire call is granted at once exactly when fewer than max permits
\* are held, and a call that waits is granted only in a step that releases a
\* held permit
C7_AcquireWaitsWhenFull ==
    [][\A c \in Callers :
        /\ (called' = called + 1 /\ c = called + 1) =>
            ((Cardinality(sem.locks) < max) <=> (sem'.lockOf[c] # 0))
        /\ (c <= called /\ sem.lockOf[c] = 0 /\ sem'.lockOf[c] # 0) =>
            (\E l \in sem.locks : l \notin sem'.locks)]_vars

C7_Witness ==
    \E c \in waited : sem.lockOf[c] # 0 /\ Cardinality(sem.locks) = max

\* C8: the second and later calls of one release function change nothing of the
\* semaphore: not the held set, not the waiters, and so not available()
C8_DoubleReleaseNoOp ==
    [][\A c \in Callers :
        (relCount[c] >= 1 /\ relCount'[c] = relCount[c] + 1) => sem' = sem]_vars

C8_Witness ==
    \E c \in Callers : relCount[c] = 2 /\ sem.waiting # <<>>

\* C9: available() is max minus the permits granted and not yet released; with
\* no waiter pending a granted acquire lowers it by one and a first release
\* raises it by one
C9_AvailableCountsHeld ==
    [][/\ available(sem) = max - Cardinality(holders)
       /\ available(sem') = max - Cardinality(holders')
       /\ (called' = called + 1 /\ sem'.lockOf[called'] # 0) =>
            available(sem') = available(sem) - 1
       /\ \A c \in Callers :
            (relCount[c] = 0 /\ relCount'[c] = 1 /\ sem.waiting = <<>>) =>
                available(sem') = available(sem) + 1]_vars

C9_Witness ==
    /\ called >= max
    /\ \A c \in 1..called : relCount[c] >= 1
    /\ available(sem) = max

\* ---- properties of mapAsync (SpecMap: one traversal, SpecTwo: two) ---------
\* [f(x) for x in input order]
mapped == [i \in 1..Len(upstream) |-> f(upstream[i])]

isPrefix(s, full) == Len(s) <= Len(full) /\ s = SubSeq(full, 1, Len(s))

rejected == {i \in 1..MaxLen : task[i].state = "rejected"}
pending == {i \in 1..MaxLen : task[i].state = "pending"}

\* the least element of a non-empty set of numbers
least(S) == CHOOSE i \in S : \A j \in S : i <= j

\* C1: when upstream yields x_1..x_n and no call of f rejects, what the
\* traversal has emitted is always a prefix of f(x_1), ..., f(x_n), and all of
\* it once the traversal has ended
C1_OutputInUpstreamOrder ==
    (throwsAt = 0 /\ rejected = {} /\ err[1] # "thrown") =>
        /\ isPrefix(out[1], mapped)
        /\ pc[1] = "done" => out[1] = mapped

\* the second call of f settled before the first, and all was emitted
C1_Witness ==
    /\ pc[1] = "done"
    /\ Len(out[1]) >= 2
    /\ out[1] = mapped
    /\ settled[1] # 1

\* C4: the calls of f started and not yet settled never exceed the concurrency
C4_InFlightAtMostK == Cardinality(pending) <= max

C4_Witness ==
    /\ Cardinality(pending) = max
    /\ max >= 2
    /\ gen.pos < Len(upstream)
    /\ pc[1] = "awaitLast"

\* C5: once the call of f for a value has settled, fulfilled or rejected, its
\* permit is no longer held
C5_PermitReleasedWhenSettled ==
    \A i \in 1..MaxLen :
        task[i].state \in {"fulfilled", "rejected"} => task[i].lock \notin sem.locks

C10_TraversalsIndependent ==
    (pc[1] = "done" /\ pc[2] = "done") => out[1] = out[2]

\* ---- properties of the sequential combinators (SpecStreams) -----------------
min(x, y) == IF x <= y THEN x ELSE y

\* the values a traversal of stream s yields before it ends or fails
yieldedBy(s) == IF s.failAt = 0 THEN s.vals ELSE SubSeq(s.vals, 1, s.failAt - 1)

\* C11: take(n) over an upstream that does not fail emits the first
\* min(n, length) values and then ends, and when upstream has more than n
\* values it is pulled at most n times
C11_TakeNeverPullsPastN ==
    (cs.kind = "take" /\ cs.a.failAt = 0) =>
        /\ isPrefix(cs.out, cs.a.vals)
        /\ Len(cs.out) <= cs.n
        /\ cs.pc = "done" => Len(cs.out) = min(cs.n, Len(cs.a.vals))
        /\ Len(cs.a.vals) > cs.n => cs.ca.pulls <= cs.n

\* C13: recover emits what the stream yielded before it failed and then the
\* values of the recovery stream; the handler runs at most once, and only when
\* the stream failed; a failure of the recovery stream fails the traversal
C13_RecoverSwitchesOnce ==
    cs.kind = "recover" =>
        LET recovered == yieldedBy(cs.a) \o yieldedBy(cs.b)
        IN  /\ cs.handled <= 1
            /\ cs.a.failAt = 0 =>
                /\ cs.handled = 0 /\ cs.cb.pulls = 0
                /\ isPrefix(cs.out, cs.a.vals)
                /\ cs.pc # "failed"
                /\ cs.pc = "done" => cs.out = cs.a.vals
            /\ cs.a.failAt # 0 =>
                /\ isPrefix(cs.out, recovered)
                /\ cs.pc = "done" => (cs.out = recovered /\ cs.b.failAt = 0)
                /\ cs.pc = "failed" =>
                    /\ cs.err = "b" /\ cs.b.failAt # 0
                    /\ cs.out = recovered /\ cs.handled = 1

\* the stream failed after a value, the recovery stream too
C13_Witness ==
    /\ cs.kind = "recover" /\ cs.pc = "failed"
    /\ cs.a.failAt >= 2 /\ cs.b.failAt >= 2
    /\ Len(cs.out) >= 2

\* C14: concat emits the values of first, then those of second; second is
\* pulled only after first has ended without failing; when first fails the
\* traversal fails with its error and second is never pulled
C14_ConcatSecondAfterFirst ==
    cs.kind = "concat" =>
        /\ cs.cb.pulls > 0 => (cs.a.failAt = 0 /\ cs.ca.pulls = Len(cs.a.vals) + 1)
        /\ cs.a.failAt # 0 =>
            /\ cs.cb.pulls = 0
            /\ isPrefix(cs.out, yieldedBy(cs.a))
            /\ cs.pc # "done"
            /\ cs.pc = "failed" => (cs.err = "a" /\ cs.out = yieldedBy(cs.a))
        /\ (cs.a.failAt = 0 /\ cs.b.failAt = 0) =>
            /\ isPrefix(cs.out, cs.a.vals \o cs.b.vals)
            /\ cs.pc # "failed"
            /\ cs.pc = "done" => cs.out = cs.a.vals \o cs.b.vals

C14_Witness ==
    /\ cs.kind = "concat" /\ cs.pc = "done"
    /\ Len(cs.a.vals) >= 2 /\ Len(cs.b.vals) >= 2
    /\ cs.out = cs.a.vals \o cs.b.vals

\* C15: intersperse over n values emits them in order with max(n - 1, 0)
\* separators, one between each two consecutive values, and the j-th separator
\* emitted is the supplier's j-th fresh product
C15_IntersperseFreshSeparators ==
    (cs.kind = "intersperse" /\ cs.a.failAt = 0) =>
        /\ \A k \in 1..Len(cs.out) :
            IF k % 2 = 1 THEN cs.out[k] = cs.a.vals[(k + 1) \div 2]
            ELSE cs.out[k] = supplied(k \div 2)
        /\ cs.pc = "done" =>
            Len(cs.out) = (IF cs.a.vals = <<>> THEN 0 ELSE 2 * Len(cs.a.vals) - 1)

\* C16: zip over two streams that do not fail pulls both the same number of
\* times, emits min(m, n) pairs, the i-th made of the i-th values, and ends in
\* the round in which a side reports its end
C16_ZipLockstep ==
    (cs.kind = "zip" /\ cs.a.failAt = 0 /\ cs.b.failAt = 0) =>
        LET shorter == min(Len(cs.a.vals), Len(cs.b.vals))
        IN  /\ cs.ca.pulls = cs.cb.pulls
            /\ Len(cs.out) <= shorter
            /\ \A k \in 1..Len(cs.out) : cs.out[k] = <<cs.a.vals[k], cs.b.vals[k]>>
            /\ cs.pc = "run" => cs.ca.pulls = Len(cs.out)
            /\ cs.pc = "done" => (Len(cs.out) = shorter /\ cs.ca.pulls = shorter + 1)
            /\ cs.pc # "failed"

C16_Witness ==
    /\ cs.kind = "zip" /\ cs.pc = "done"
    /\ Len(cs.a.vals) # Len(cs.b.vals)
    /\ Len(cs.out) >= 2

\* ---- mapAsync with any concurrency (SpecAnyK) -------------------------------
\* C12: with concurrency <= 0, an upstream that does not fail and an f that
\* always fulfils, the traversal does not end before it emitted every mapped
\* value, and it never waits for a permit while none is held
C12_NonPositiveLikeOne ==
    (max <= 0 /\ throwsAt = 0 /\ rejected = {} /\ err[1] # "thrown") =>
        /\ pc[1] = "done" => out[1] = mapped
        /\ ~(pc[1] = "awaitAcquire" /\ sem.lockOf[1] = 0 /\ sem.locks = {})

\* ---- more properties of the semaphore and of mapAsync -----------------------
\* C17: a step that makes no new acquire call (a release) grants a permit to at
\* most one waiting call, and to none but the earliest of them
C17_OneReleaseOneGrant ==
    [][LET woken == {c \in 1..called : sem.lockOf[c] = 0 /\ sem'.lockOf[c] # 0}
       IN  called' = called =>
             /\ Cardinality(woken) <= 1
             /\ \A c \in woken : \A d \in waited : sem.lockOf[d] = 0 => c <= d]_vars

\* C18: the upstream values pulled and not yet emitted, and so the array
\* promises, never number more than the concurrency
C18_UnemittedAtMostK ==
    /\ Len(promises) <= max
    /\ (rejected = {} /\ err[1] = "none") => gen.pos - Len(out[1]) <= max

\* C19 (SpecSemFair): every acquire call made is eventually granted a permit
C19_EveryAcquireGranted ==
    \A c \in Callers : (called >= c) ~> (sem.lockOf[c] # 0)

\* every call was made, some had to wait, and all were granted
C19_Witness ==
    /\ called = MaxCalls
    /\ Cardinality(waited) >= 2
    /\ \A c \in Callers : sem.lockOf[c] # 0

\* C20 (SpecMapLive): when upstream does not fail and no call of f fails, the
\* traversal eventually ends, having emitted one result per upstream value in
\* order, with promises empty
C20_TraversalEnds ==
    (throwsAt = 0) =>
        <>(\/ rejected # {}
           \/ err[1] = "thrown"
           \/ /\ pc[1] = "done"
              /\ out[1] = mapped
              /\ Len(out[1]) = Len(upstream)
              /\ promises = <<>>)

C20_Witness ==
    /\ pc[1] = "done"
    /\ throwsAt = 0 /\ rejected = {} /\ err[1] = "none"
    /\ Len(upstream) >= 3
    /\ Len(out[1]) = Len(upstream)
    /\ promises = <<>>
    /\ gen.ended

\* ---- the upstream traversal after its end (SpecMap) --------------------------
\* C21: once a gen.next() call has resolved done or has thrown, no later step
\* of the mapAsync traversal calls gen.next() again
C21_NoUpstreamPullAfterEnd ==
    [][gen.ended => gen'.calls = gen.calls]_vars

\* ---- waiters and free permits (SpecSem) --------------------------------------
\* the acquire calls whose promise is still pending
waiting == {c \in 1..called : sem.lockOf[c] = 0}

\* C22: whenever an acquire call is waiting, in the waiter list or with its
\* promise pending, no permit is available: the held permits are at least max
C22_WaiterOnlyWhenFull ==
    (sem.waiting # <<>> \/ waiting # {}) =>
        /\ available(sem) <= 0
        /\ Cardinality(sem.locks) >= max

\* a release granted a waiting call, and a call is waiting with no permit free
C22_Witness ==
    /\ sem.waiting # <<>>
    /\ \E c \in waited : sem.lockOf[c] # 0
    /\ \E c \in Callers : relCount[c] >= 1
    /\ available(sem) = 0

====
